---- MODULE Spec2Model ----
(***************************************************************************)
(* Model of pkg/internal/wordpress/pod_template.go: the compilation of a   *)
(* Wordpress resource (the intent, wp) into the pod template of the        *)
(* serving deployment (WebPodTemplateSpec) and of wp-cli jobs              *)
(* (JobPodTemplateSpec).                                                   *)
(*                                                                         *)
(* Conventions.                                                            *)
(*  - A Go pointer / optional struct is a tuple: <<>> is nil, <<v>> is a   *)
(*    pointer to v.                                                        *)
(*  - A Go string that goes through path.Join is a sequence of tokens,     *)
(*    each "/", "." or a chunk free of slashes; Str renders it.  Every     *)
(*    other string is a TLA+ string.                                       *)
(*  - A Go slice is a sequence; the zero value of a field is "", FALSE,    *)
(*    <<>> as fits its type.                                               *)
(***************************************************************************)
EXTENDS Integers, Sequences, FiniteSets, TLC

VARIABLES
    wp,      \* the Wordpress resource the methods are called on
    web,     \* <<>> or <<result of the last WebPodTemplateSpec()>>
    job,     \* <<>> or <<result of the last JobPodTemplateSpec(cmd...)>>
    cmd,     \* the arguments of the last JobPodTemplateSpec call
    calls    \* number of compilations done so far

vars == <<wp, web, job, cmd, calls>>

----------------------------------------------------------------------------
(* Bounds of the model.                                                    *)

MaxCalls == 3      \* compilations per behaviour
MaxList == 2       \* length of caller-supplied lists (env, volumes, steps...)
MaxRoutes == 2     \* number of explicit routes
MaxCreds == 2      \* credential entries of a media backend descriptor
MaxVolumes == 1    \* caller-supplied volumes and volume mounts

----------------------------------------------------------------------------
(* Constants of pod_template.go.                                           *)

InternalHTTPPort == 8080
MetricsExporterPort == 9145
codeVolumeName == "code"
mediaVolumeName == "media"
s3Prefix == "s3"
gcsPrefix == "gs"
prepareVolumesImage == "gcr.io/google-containers/busybox@sha256:545e6a63"
gitCloneScript == "gitCloneScript"
wwwDataUserID == 33

(* Names declared elsewhere in the package (not part of pod_template.go).  *)
knativeInternalVolume == "knative-internal"
knativeInternalMountPath == "/var/knative-internal"
knativeVarLogVolume == "knative-var-log"
knativeVarLogMountPath == "/var/log"
varLogSizeLimit == "varLogSizeLimit"
codeSrcMountPath == "/var/run/presslabs.org/code/src"
configMountPath == "/app/config"
GitCloneImage == "options.GitCloneImage"
WordpressSecret == "wp"
WordpressCodePVC == "code"
WordpressMediaPVC == "media"

----------------------------------------------------------------------------
(* Strings and paths.                                                      *)

RECURSIVE Str(_)
(* The Go string a token sequence stands for.                              *)
Str(ts) == IF ts = <<>> THEN "" ELSE Head(ts) \o Str(Tail(ts))

RECURSIVE SplitSlash(_, _, _)
(* The segments of ts between slashes: acc are the finished segments, cur  *)
(* the one being read.                                                     *)
SplitSlash(ts, acc, cur) ==
    IF ts = <<>> THEN Append(acc, cur)
    ELSE IF Head(ts) = "/" THEN SplitSlash(Tail(ts), Append(acc, cur), <<>>)
    ELSE SplitSlash(Tail(ts), acc, Append(cur, Head(ts)))

RECURSIVE CleanSegs(_, _, _)
(* path.Clean's pass over the segments: drop empty and "." segments, let   *)
(* ".." remove the segment before it, keep a leading ".." only when the    *)
(* path is not rooted.                                                     *)
CleanSegs(segs, stack, rooted) ==
    IF segs = <<>> THEN stack
    ELSE LET s == Head(segs)
             rest == Tail(segs)
         IN  IF s = <<>> \/ s = <<".">> THEN CleanSegs(rest, stack, rooted)
             ELSE IF s = <<".", ".">>
                  THEN IF stack # <<>> /\ stack[Len(stack)] # <<".", ".">>
                       THEN CleanSegs(rest, SubSeq(stack, 1, Len(stack) - 1), rooted)
                       ELSE IF rooted THEN CleanSegs(rest, stack, rooted)
                       ELSE CleanSegs(rest, Append(stack, s), rooted)
             ELSE CleanSegs(rest, Append(stack, s), rooted)

RECURSIVE JoinWith(_, _)
(* strings.Join on token sequences.                                        *)
JoinWith(elems, sep) ==
    IF elems = <<>> THEN <<>>
    ELSE IF Len(elems) = 1 THEN elems[1]
    ELSE elems[1] \o <<sep>> \o JoinWith(Tail(elems), sep)

PathClean(ts) ==
    IF ts = <<>> THEN <<".">>
    ELSE LET rooted == ts[1] = "/"
             stack == CleanSegs(SplitSlash(ts, <<>>, <<>>), <<>>, rooted)
             body == JoinWith(stack, "/")
             res == IF rooted THEN <<"/">> \o body ELSE body
         IN  IF res = <<>> THEN <<".">> ELSE res

PathJoin(a, b) ==
    IF a = <<>> /\ b = <<>> THEN <<>>
    ELSE IF a = <<>> THEN PathClean(b)
    ELSE IF b = <<>> THEN PathClean(a)
    ELSE PathClean(a \o <<"/">> \o b)

----------------------------------------------------------------------------
(* Methods of the Wordpress type defined outside pod_template.go.          *)

MainDomain(w) == <<w.name \o ".main-domain">>

HomeURL(w) == "http://" \o Str(MainDomain(w))

SiteURL(w) == "http://" \o Str(MainDomain(w)) \o "/" \o w.wordpressPathPrefix

ComponentName(w, component) == w.name \o "-" \o component

WebPodLabels(w) == [l \in {"app", "component"} |-> IF l = "app" THEN w.name ELSE "web"]

JobPodLabels(w) == [l \in {"app", "component"} |-> IF l = "app" THEN w.name ELSE "wp-cli"]

(* labels.Merge: a new map holding labels1 overridden by labels2.          *)
LabelsMerge(labels1, labels2) ==
    [l \in DOMAIN labels1 \cup DOMAIN labels2 |->
        IF l \in DOMAIN labels2 THEN labels2[l] ELSE labels1[l]]

----------------------------------------------------------------------------
(* Values of the output.                                                   *)

EnvVar(n, v) == [name |-> n, value |-> v, valueFrom |-> <<>>]

VolumeMount(n, p, ro, sub) == [name |-> n, mountPath |-> p, readOnly |-> ro, subPath |-> sub]

EmptyDirSource(limit) == [medium |-> "", sizeLimit |-> limit]

ZeroVolume == [name |-> "", emptyDir |-> <<>>, persistentVolumeClaim |-> <<>>, hostPath |-> <<>>]

ZeroContainer ==
    [name |-> "", image |-> "", imagePullPolicy |-> "", command |-> <<>>, args |-> <<>>,
     env |-> <<>>, envFrom |-> <<>>, volumeMounts |-> <<>>, resources |-> "",
     ports |-> <<>>, securityContext |-> <<>>, lifecycle |-> <<>>,
     readinessProbe |-> <<>>, livenessProbe |-> <<>>]

ZeroPodTemplateSpec ==
    [labels |-> <<>>, annotations |-> <<>>, imagePullSecrets |-> <<>>, serviceAccountName |-> "",
     restartPolicy |-> "", initContainers |-> <<>>, containers |-> <<>>, volumes |-> <<>>,
     nodeSelector |-> <<>>, tolerations |-> <<>>, affinity |-> <<>>,
     priorityClassName |-> "", securityContext |-> <<>>]

----------------------------------------------------------------------------
(* Environment.                                                            *)

s3EnvVars ==
    [n \in {"AWS_ACCESS_KEY_ID", "AWS_SECRET_ACCESS_KEY", "AWS_CONFIG_FILE", "ENDPOINT"} |->
        IF n = "ENDPOINT" THEN "S3_ENDPOINT" ELSE n]

gcsEnvVars == [n \in {"GOOGLE_CREDENTIALS", "GOOGLE_APPLICATION_CREDENTIALS"} |-> n]

RECURSIVE RemapEnvPassThrough(_, _)
(* RemapEnv keeping the entries the table does not know, unchanged.        *)
RemapEnvPassThrough(envs, table) ==
    IF envs = <<>> THEN <<>>
    ELSE LET e == Head(envs)
         IN  (IF e.name \in DOMAIN table
              THEN <<[e EXCEPT !.name = table[e.name]]>>
              ELSE <<e>>) \o RemapEnvPassThrough(Tail(envs), table)

RECURSIVE RemapEnv(_, _)
(* The loop of mediaEnv over a backend's Env: entries whose name is a key  *)
(* of table are copied under the table's name, the others are skipped.     *)
RemapEnv(envs, table) ==
    IF envs = <<>> THEN <<>>
    ELSE LET e == Head(envs)
         IN  (IF e.name \in DOMAIN table
              THEN <<[e EXCEPT !.name = table[e.name]]>>
              ELSE <<>>) \o RemapEnv(Tail(envs), table)

BucketEnv(prefix, src) ==
    <<EnvVar("STACK_MEDIA_BUCKET", prefix \o "://" \o Str(PathJoin(src.bucket, src.pathPrefix)))>>

mediaEnv(w) ==
    IF w.mediaVolumeSpec = <<>> THEN <<>>
    ELSE LET m == w.mediaVolumeSpec[1]
         IN  (IF m.s3VolumeSource # <<>>
              THEN BucketEnv(s3Prefix, m.s3VolumeSource[1])
                   \o RemapEnv(m.s3VolumeSource[1].env, s3EnvVars)
              ELSE <<>>)
             \o
             (IF m.gcsVolumeSource # <<>>
              THEN BucketEnv(gcsPrefix, m.gcsVolumeSource[1])
                   \o RemapEnv(m.gcsVolumeSource[1].env, gcsEnvVars)
              ELSE <<>>)

(* routes filling the result from its end.                                 *)
routesReversed(w) ==
    IF Len(w.routes) = 0 THEN <<MainDomain(w)>>
    ELSE [i \in 1..Len(w.routes) |->
             PathJoin(w.routes[Len(w.routes) + 1 - i].domain,
                      w.routes[Len(w.routes) + 1 - i].path)]

routes(w) ==
    IF Len(w.routes) = 0 THEN <<MainDomain(w)>>
    ELSE [i \in 1..Len(w.routes) |-> PathJoin(w.routes[i].domain, w.routes[i].path)]

(* env letting a caller's entry replace the built-in of the same name      *)
(* instead of appending it.                                                *)
envMerging(w) ==
    LET builtIn == <<EnvVar("WP_HOME", HomeURL(w)),
                     EnvVar("WP_SITEURL", SiteURL(w)),
                     EnvVar("WP_CORE_DIRECTORY", w.wordpressPathPrefix),
                     EnvVar("STACK_ROUTES", Str(JoinWith(routes(w), ","))),
                     EnvVar("STACK_SITE_NAME", w.name),
                     EnvVar("STACK_SITE_NAMESPACE", w.namespace)>>
        overridden(n) == \E i \in DOMAIN w.env : w.env[i].name = n
        keep(e) == ~overridden(e.name)
    IN  (SelectSeq(builtIn, keep) \o w.env) \o mediaEnv(w)

env(w) ==
    (<<EnvVar("WP_HOME", HomeURL(w)),
       EnvVar("WP_SITEURL", SiteURL(w)),
       EnvVar("WP_CORE_DIRECTORY", w.wordpressPathPrefix),
       EnvVar("STACK_ROUTES", Str(JoinWith(routes(w), ","))),
       EnvVar("STACK_SITE_NAME", w.name),
       EnvVar("STACK_SITE_NAMESPACE", w.namespace)>>
     \o w.env)
    \o mediaEnv(w)

SecretRef(n) == [secretRef |-> n, configMapRef |-> ""]

(* envFrom with the generated secret after the caller's references.        *)
envFromSecretLast(w) == w.envFrom \o <<SecretRef(ComponentName(w, WordpressSecret))>>

envFrom(w) == <<SecretRef(ComponentName(w, WordpressSecret))>> \o w.envFrom

gitCloneEnv(w) ==
    LET c == w.codeVolumeSpec[1]
    IN  IF c.gitDir = <<>> THEN <<>>
        ELSE LET g == c.gitDir[1]
             IN  <<EnvVar("GIT_CLONE_URL", g.repository), EnvVar("SRC_DIR", codeSrcMountPath)>>
                 \o (IF Len(g.gitRef) > 0 THEN <<EnvVar("GIT_CLONE_REF", g.gitRef)>> ELSE <<>>)
                 \o g.env

----------------------------------------------------------------------------
(* Source resolution.                                                      *)

(* hasMediaMounts counting a backend descriptor as a mount source.         *)
hasMediaMountsWithBackend(w) ==
    IF w.mediaVolumeSpec = <<>> THEN FALSE
    ELSE LET m == w.mediaVolumeSpec[1]
         IN  IF m.persistentVolumeClaim # <<>> THEN TRUE
             ELSE IF m.hostPath # <<>> THEN TRUE
             ELSE IF m.emptyDir # <<>> THEN TRUE
             ELSE m.s3VolumeSource # <<>> \/ m.gcsVolumeSource # <<>>

hasMediaMounts(w) ==
    IF w.mediaVolumeSpec = <<>> THEN FALSE
    ELSE LET m == w.mediaVolumeSpec[1]
         IN  IF m.persistentVolumeClaim # <<>> THEN TRUE
             ELSE IF m.hostPath # <<>> THEN TRUE
             ELSE IF m.emptyDir # <<>> THEN TRUE
             ELSE FALSE

(* hasCodeMounts defaulting to a mount whenever a code spec is given.      *)
hasCodeMountsDefaulting(w) == w.codeVolumeSpec # <<>>

hasCodeMounts(w) ==
    IF w.codeVolumeSpec = <<>> THEN FALSE
    ELSE LET c == w.codeVolumeSpec[1]
         IN  IF c.gitDir # <<>> THEN TRUE
             ELSE IF c.persistentVolumeClaim # <<>> THEN TRUE
             ELSE IF c.hostPath # <<>> THEN TRUE
             ELSE IF c.emptyDir # <<>> THEN TRUE
             ELSE FALSE

----------------------------------------------------------------------------
(* Mounts and volumes.                                                     *)

volumeMounts(w) ==
    <<VolumeMount(knativeVarLogVolume, knativeVarLogMountPath, FALSE, "")>>
    \o w.volumeMounts
    \o (IF hasCodeMounts(w)
         THEN LET c == w.codeVolumeSpec[1]
              IN  <<VolumeMount(codeVolumeName, codeSrcMountPath, c.readOnly, ""),
                    VolumeMount(codeVolumeName, c.mountPath, c.readOnly, c.contentSubPath),
                    VolumeMount(codeVolumeName, configMountPath, TRUE, c.configSubPath)>>
         ELSE <<>>)
    \o (IF hasMediaMounts(w)
         THEN LET m == w.mediaVolumeSpec[1]
              IN  <<VolumeMount(mediaVolumeName, m.mountPath, m.readOnly,
                                IF m.contentSubPath # "" THEN m.contentSubPath ELSE "")>>
         ELSE <<>>)

(* codeVolume trying the claim before the git variant.                     *)
codeVolumeClaimFirst(w) ==
    LET default == [ZeroVolume EXCEPT !.name = codeVolumeName,
                                      !.emptyDir = <<EmptyDirSource("")>>]
    IN  IF w.codeVolumeSpec = <<>> THEN default
        ELSE LET c == w.codeVolumeSpec[1]
             IN  IF c.persistentVolumeClaim # <<>>
                 THEN [ZeroVolume EXCEPT !.name = codeVolumeName,
                           !.persistentVolumeClaim =
                               <<[claimName |-> ComponentName(w, WordpressCodePVC)]>>]
                 ELSE IF c.gitDir # <<>>
                 THEN IF c.gitDir[1].emptyDir # <<>>
                      THEN [default EXCEPT !.emptyDir = c.gitDir[1].emptyDir]
                      ELSE default
                 ELSE IF c.hostPath # <<>>
                 THEN [ZeroVolume EXCEPT !.name = codeVolumeName, !.hostPath = c.hostPath]
                 ELSE IF c.emptyDir # <<>>
                 THEN [default EXCEPT !.emptyDir = c.emptyDir]
                 ELSE default

codeVolume(w) ==
    LET default == [ZeroVolume EXCEPT !.name = codeVolumeName,
                                      !.emptyDir = <<EmptyDirSource("")>>]
    IN  IF w.codeVolumeSpec = <<>> THEN default
        ELSE LET c == w.codeVolumeSpec[1]
             IN  IF c.gitDir # <<>>
                 THEN IF c.gitDir[1].emptyDir # <<>>
                      THEN [default EXCEPT !.emptyDir = c.gitDir[1].emptyDir]
                      ELSE default
                 ELSE IF c.persistentVolumeClaim # <<>>
                 THEN [ZeroVolume EXCEPT !.name = codeVolumeName,
                           !.persistentVolumeClaim =
                               <<[claimName |-> ComponentName(w, WordpressCodePVC)]>>]
                 ELSE IF c.hostPath # <<>>
                 THEN [ZeroVolume EXCEPT !.name = codeVolumeName, !.hostPath = c.hostPath]
                 ELSE IF c.emptyDir # <<>>
                 THEN [default EXCEPT !.emptyDir = c.emptyDir]
                 ELSE default

mediaVolume(w) ==
    LET default == [ZeroVolume EXCEPT !.name = mediaVolumeName,
                                      !.emptyDir = <<EmptyDirSource("")>>]
    IN  IF w.mediaVolumeSpec = <<>> THEN default
        ELSE LET m == w.mediaVolumeSpec[1]
             IN  IF m.persistentVolumeClaim # <<>>
                 THEN [ZeroVolume EXCEPT !.name = mediaVolumeName,
                           !.persistentVolumeClaim =
                               <<[claimName |-> ComponentName(w, WordpressMediaPVC)]>>]
                 ELSE IF m.hostPath # <<>>
                 THEN [ZeroVolume EXCEPT !.name = mediaVolumeName, !.hostPath = m.hostPath]
                 ELSE IF m.emptyDir # <<>>
                 THEN [default EXCEPT !.emptyDir = m.emptyDir]
                 ELSE default

volumes(w) ==
    <<[ZeroVolume EXCEPT !.name = knativeInternalVolume, !.emptyDir = <<EmptyDirSource("")>>],
      [ZeroVolume EXCEPT !.name = knativeVarLogVolume,
                         !.emptyDir = <<EmptyDirSource(varLogSizeLimit)>>]>>
    \o w.volumes
    \o (IF hasCodeMounts(w) THEN <<codeVolume(w)>> ELSE <<>>)
    \o (IF hasMediaMounts(w) THEN <<mediaVolume(w)>> ELSE <<>>)

----------------------------------------------------------------------------
(* Init steps.                                                             *)

securityContext(w) == <<[runAsUser |-> wwwDataUserID, procMount |-> "Default"]>>

FieldRefEnv(n, fieldPath) == [name |-> n, value |-> "", valueFrom |-> <<fieldPath>>]

gitCloneContainer(w) ==
    [ZeroContainer EXCEPT
        !.name = "git",
        !.args = <<"/bin/bash", "-c", gitCloneScript>>,
        !.image = GitCloneImage,
        !.env = gitCloneEnv(w),
        !.envFrom = w.codeVolumeSpec[1].gitDir[1].envFrom,
        !.volumeMounts = <<VolumeMount(codeVolumeName, codeSrcMountPath, FALSE, "")>>,
        !.securityContext = securityContext(w)]

(* prepareVolumesContainer mounting the media volume whenever a media     *)
(* spec is given, without asking hasMediaMounts.                           *)
prepareVolumesContainerAnyMedia(w) ==
    [ZeroContainer EXCEPT
        !.name = "prepare-volumes",
        !.args = <<"/bin/sh", "-c", "prepareVolumesScript">>,
        !.image = prepareVolumesImage,
        !.volumeMounts =
            <<VolumeMount(knativeInternalVolume, knativeInternalMountPath, FALSE, ""),
              VolumeMount(knativeVarLogVolume, knativeVarLogMountPath, FALSE, "")>>
            \o (IF hasCodeMounts(w) /\ ~w.codeVolumeSpec[1].readOnly
                 THEN <<VolumeMount(codeVolumeName, "/mnt/code", FALSE,
                                    w.codeVolumeSpec[1].contentSubPath)>>
                 ELSE <<>>)
            \o (IF w.mediaVolumeSpec # <<>> /\ ~w.mediaVolumeSpec[1].readOnly
                 THEN <<VolumeMount(mediaVolumeName, "/mnt/media", FALSE,
                                    w.mediaVolumeSpec[1].contentSubPath)>>
                 ELSE <<>>),
        !.env = <<FieldRefEnv("POD_NAMESPACE", "metadata.namespace"),
                  FieldRefEnv("POD_NAME", "metadata.name")>>]

prepareVolumesContainer(w) ==
    [ZeroContainer EXCEPT
        !.name = "prepare-volumes",
        !.args = <<"/bin/sh", "-c", "prepareVolumesScript">>,
        !.image = prepareVolumesImage,
        !.volumeMounts =
            <<VolumeMount(knativeInternalVolume, knativeInternalMountPath, FALSE, ""),
              VolumeMount(knativeVarLogVolume, knativeVarLogMountPath, FALSE, "")>>
            \o (IF hasCodeMounts(w) /\ ~w.codeVolumeSpec[1].readOnly
                 THEN <<VolumeMount(codeVolumeName, "/mnt/code", FALSE,
                                    w.codeVolumeSpec[1].contentSubPath)>>
                 ELSE <<>>)
            \o (IF hasMediaMounts(w) /\ ~w.mediaVolumeSpec[1].readOnly
                 THEN <<VolumeMount(mediaVolumeName, "/mnt/media", FALSE,
                                    w.mediaVolumeSpec[1].contentSubPath)>>
                 ELSE <<>>),
        !.env = <<FieldRefEnv("POD_NAMESPACE", "metadata.namespace"),
                  FieldRefEnv("POD_NAME", "metadata.name")>>]

installWPContainer(w) ==
    IF w.wordpressBootstrapSpec = <<>> THEN <<>>
    ELSE <<[ZeroContainer EXCEPT
              !.name = "install-wp",
              !.image = w.image,
              !.volumeMounts = volumeMounts(w),
              !.env = env(w) \o w.wordpressBootstrapSpec[1].env,
              !.envFrom = envFrom(w) \o w.wordpressBootstrapSpec[1].envFrom,
              !.securityContext = securityContext(w),
              !.command = <<"wp-install">>,
              !.args = <<"$(WORDPRESS_BOOTSTRAP_TITLE)", HomeURL(w),
                         "$(WORDPRESS_BOOTSTRAP_USER)", "$(WORDPRESS_BOOTSTRAP_PASSWORD)",
                         "$(WORDPRESS_BOOTSTRAP_EMAIL)">>]>>

(* initContainers with the code fetched only after the install step.      *)
initContainersInstallFirst(w) ==
    (IF hasMediaMounts(w) \/ hasCodeMounts(w) THEN <<prepareVolumesContainer(w)>> ELSE <<>>)
    \o w.initContainers
    \o installWPContainer(w)
    \o (IF w.codeVolumeSpec # <<>> /\ w.codeVolumeSpec[1].gitDir # <<>>
         THEN <<gitCloneContainer(w)>>
         ELSE <<>>)

initContainers(w) ==
    (IF hasMediaMounts(w) \/ hasCodeMounts(w) THEN <<prepareVolumesContainer(w)>> ELSE <<>>)
    \o w.initContainers
    \o (IF w.codeVolumeSpec # <<>> /\ w.codeVolumeSpec[1].gitDir # <<>>
         THEN <<gitCloneContainer(w)>>
         ELSE <<>>)
    \o installWPContainer(w)

----------------------------------------------------------------------------
(* Probes.                                                                 *)

DefaultProbe(httpPath, headers) ==
    [httpPath |-> httpPath, httpPort |-> InternalHTTPPort, httpHeaders |-> headers,
     failureThreshold |-> 3, initialDelaySeconds |-> 10, periodSeconds |-> 5,
     successThreshold |-> 1, timeoutSeconds |-> 30]

readinessProbe(w) ==
    IF w.readinessProbe # <<>> THEN w.readinessProbe
    ELSE <<DefaultProbe("/", <<[name |-> "Host", value |-> Str(MainDomain(w))]>>)>>

livenessProbe(w) ==
    IF w.livenessProbe # <<>> THEN w.livenessProbe
    ELSE <<DefaultProbe("/-/php-ping", <<>>)>>

----------------------------------------------------------------------------
(* The two pod templates.                                                  *)

WebTemplate(w) ==
    [ZeroPodTemplateSpec EXCEPT
        !.labels = LabelsMerge(IF w.podMetadata # <<>> THEN w.podMetadata[1].labels ELSE <<>>,
                               WebPodLabels(w)),
        !.annotations = IF w.podMetadata # <<>> THEN w.podMetadata[1].annotations ELSE <<>>,
        !.imagePullSecrets = w.imagePullSecrets,
        !.serviceAccountName = IF Len(w.serviceAccountName) > 0 THEN w.serviceAccountName ELSE "",
        !.initContainers = initContainers(w),
        !.containers =
            <<[ZeroContainer EXCEPT
                  !.name = "wordpress",
                  !.image = w.image,
                  !.imagePullPolicy = w.imagePullPolicy,
                  !.volumeMounts = volumeMounts(w),
                  !.env = env(w),
                  !.envFrom = envFrom(w),
                  !.resources = w.resources,
                  !.ports = <<[name |-> "http", containerPort |-> InternalHTTPPort],
                              [name |-> "prometheus", containerPort |-> MetricsExporterPort]>>,
                  !.securityContext = securityContext(w),
                  !.lifecycle = <<[postStart |-> "POST_START_SCRIPTS",
                                   preStop |-> "PRE_STOP_SCRIPTS"]>>,
                  !.readinessProbe = readinessProbe(w),
                  !.livenessProbe = livenessProbe(w)]>>
            \o w.sidecars,
        !.volumes = volumes(w),
        !.nodeSelector = IF DOMAIN w.nodeSelector # {} THEN w.nodeSelector ELSE <<>>,
        !.tolerations = IF Len(w.tolerations) > 0 THEN w.tolerations ELSE <<>>,
        !.affinity = w.affinity,
        !.priorityClassName = IF Len(w.priorityClassName) > 0 THEN w.priorityClassName ELSE ""]

(* JobTemplate leaving out the caller's sidecars.                          *)
JobTemplateWithoutSidecars(w, args) ==
    [ZeroPodTemplateSpec EXCEPT
        !.labels = LabelsMerge(IF w.podMetadata # <<>> THEN w.podMetadata[1].labels ELSE <<>>,
                               JobPodLabels(w)),
        !.annotations = IF w.podMetadata # <<>> THEN w.podMetadata[1].annotations ELSE <<>>,
        !.imagePullSecrets = w.imagePullSecrets,
        !.serviceAccountName = IF Len(w.serviceAccountName) > 0 THEN w.serviceAccountName ELSE "",
        !.restartPolicy = "Never",
        !.initContainers = initContainers(w),
        !.containers =
            <<[ZeroContainer EXCEPT
                  !.name = "wp-cli",
                  !.image = w.image,
                  !.imagePullPolicy = w.imagePullPolicy,
                  !.args = args,
                  !.volumeMounts = volumeMounts(w),
                  !.env = env(w),
                  !.envFrom = envFrom(w),
                  !.securityContext = securityContext(w)]>>,
        !.volumes = volumes(w),
        !.nodeSelector = IF DOMAIN w.nodeSelector # {} THEN w.nodeSelector ELSE <<>>,
        !.tolerations = IF Len(w.tolerations) > 0 THEN w.tolerations ELSE <<>>,
        !.affinity = w.affinity,
        !.priorityClassName = IF Len(w.priorityClassName) > 0 THEN w.priorityClassName ELSE "",
        !.securityContext = <<[fsGroup |-> wwwDataUserID]>>]

JobTemplate(w, args) ==
    [ZeroPodTemplateSpec EXCEPT
        !.labels = LabelsMerge(IF w.podMetadata # <<>> THEN w.podMetadata[1].labels ELSE <<>>,
                               JobPodLabels(w)),
        !.annotations = IF w.podMetadata # <<>> THEN w.podMetadata[1].annotations ELSE <<>>,
        !.imagePullSecrets = w.imagePullSecrets,
        !.serviceAccountName = IF Len(w.serviceAccountName) > 0 THEN w.serviceAccountName ELSE "",
        !.restartPolicy = "Never",
        !.initContainers = initContainers(w),
        !.containers =
            <<[ZeroContainer EXCEPT
                  !.name = "wp-cli",
                  !.image = w.image,
                  !.imagePullPolicy = w.imagePullPolicy,
                  !.args = args,
                  !.volumeMounts = volumeMounts(w),
                  !.env = env(w),
                  !.envFrom = envFrom(w),
                  !.securityContext = securityContext(w)]>>
            \o w.sidecars,
        !.volumes = volumes(w),
        !.nodeSelector = IF DOMAIN w.nodeSelector # {} THEN w.nodeSelector ELSE <<>>,
        !.tolerations = IF Len(w.tolerations) > 0 THEN w.tolerations ELSE <<>>,
        !.affinity = w.affinity,
        !.priorityClassName = IF Len(w.priorityClassName) > 0 THEN w.priorityClassName ELSE "",
        !.securityContext = <<[fsGroup |-> wwwDataUserID]>>]

----------------------------------------------------------------------------
(* The resources the methods are called on.  BaseIntent has every optional *)
(* part unset; each family below varies one area of it.                    *)

SeqsUpTo(S, n) == UNION {[1..k -> S] : k \in 0..n}

BaseIntent ==
    [name |-> "site", namespace |-> "ns", image |-> "wordpress:5", imagePullPolicy |-> "",
     wordpressPathPrefix |-> "wp",
     env |-> <<>>, envFrom |-> <<>>, volumeMounts |-> <<>>, volumes |-> <<>>,
     sidecars |-> <<>>, initContainers |-> <<>>, resources |-> "",
     imagePullSecrets |-> <<>>, serviceAccountName |-> "", podMetadata |-> <<>>,
     nodeSelector |-> <<>>, tolerations |-> <<>>, affinity |-> <<>>, priorityClassName |-> "",
     codeVolumeSpec |-> <<>>, mediaVolumeSpec |-> <<>>, routes |-> <<>>,
     wordpressBootstrapSpec |-> <<>>, readinessProbe |-> <<>>, livenessProbe |-> <<>>]

(* Code volume specs: every combination of populated variants.             *)
PlainGit == [repository |-> "https://example/repo.git", gitRef |-> "", env |-> <<>>,
             envFrom |-> <<>>, emptyDir |-> <<>>]

GitDirs ==
    {<<>>, <<PlainGit>>,
     <<[PlainGit EXCEPT !.gitRef = "main", !.emptyDir = <<EmptyDirSource("2Gi")>>,
                        !.env = <<EnvVar("SSH_RSA_PRIVATE_KEY", "key")>>]>>}

CodeVolumeSpecs ==
    {<<>>} \cup
    {<<[readOnly |-> ro, mountPath |-> "/app/web/wp-content", contentSubPath |-> sub,
        configSubPath |-> "config", gitDir |-> g, persistentVolumeClaim |-> pvc,
        hostPath |-> hp, emptyDir |-> ed]>> :
        ro \in BOOLEAN, sub \in {"", "wp-content"}, g \in GitDirs,
        pvc \in {<<>>, <<[storage |-> "1Gi"]>>},
        hp \in {<<>>, <<[path |-> "/host/code"]>>},
        ed \in {<<>>, <<EmptyDirSource("1Gi")>>}}

UserVolumeNames == {codeVolumeName, mediaVolumeName, "extra"}

UserVolume(n) == [ZeroVolume EXCEPT !.name = n, !.hostPath = <<[path |-> "/host/" \o n]>>]

UserMount(n) == VolumeMount(n, "/mnt/" \o n, FALSE, "")

UserVolumesNamed(u) == [i \in 1..Len(u) |-> UserVolume(u[i])]

UserMountsNamed(u) == [i \in 1..Len(u) |-> UserMount(u[i])]

EmptyBootstrap == [env |-> <<>>, envFrom |-> <<>>]

CodeIntents ==
    {[BaseIntent EXCEPT !.codeVolumeSpec = c,
                        !.volumes = UserVolumesNamed(u),
                        !.volumeMounts = UserMountsNamed(u),
                        !.wordpressBootstrapSpec = b] :
        c \in CodeVolumeSpecs, u \in SeqsUpTo(UserVolumeNames \ {mediaVolumeName}, MaxVolumes),
        b \in {<<>>, <<EmptyBootstrap>>}}

(* Media volume specs: the backend descriptors in detail.                  *)
CredNames == {"AWS_ACCESS_KEY_ID", "ENDPOINT", "GOOGLE_CREDENTIALS", "S3_ENDPOINT"}

Cred(n) ==
    IF n = "AWS_ACCESS_KEY_ID"
    THEN [name |-> n, value |-> "", valueFrom |-> <<"secret/aws/key">>]
    ELSE [name |-> n, value |-> "value-of-" \o n, valueFrom |-> <<>>]

CredLists == {[i \in 1..Len(ns) |-> Cred(ns[i])] : ns \in SeqsUpTo(CredNames, MaxCreds)}

BucketPaths ==
    {<<<<"b">>, <<>>>>, <<<<"b">>, <<"p">>>>, <<<<"b">>, <<"/", "p", "/", "/", "q", "/">>>>,
     <<<<>>, <<>>>>}

Backends == {[bucket |-> bp[1], pathPrefix |-> bp[2], env |-> e] : bp \in BucketPaths, e \in CredLists}

SimpleBackend == [bucket |-> <<"b">>, pathPrefix |-> <<"p">>, env |-> <<Cred("ENDPOINT")>>]

NoMedia ==
    [readOnly |-> FALSE, mountPath |-> "/app/web/wp-content/uploads", contentSubPath |-> "",
     s3VolumeSource |-> <<>>, gcsVolumeSource |-> <<>>, persistentVolumeClaim |-> <<>>,
     hostPath |-> <<>>, emptyDir |-> <<>>]

BackendMediaSpecs ==
    {<<[NoMedia EXCEPT !.s3VolumeSource = <<b>>, !.gcsVolumeSource = o]>> :
        b \in Backends, o \in {<<>>, <<SimpleBackend>>}}
    \cup
    {<<[NoMedia EXCEPT !.gcsVolumeSource = <<b>>, !.s3VolumeSource = o]>> :
        b \in Backends, o \in {<<>>, <<SimpleBackend>>}}

(* Media volume specs: every combination of mount sources and descriptors. *)
MountMediaSpecs ==
    {<<>>} \cup
    {<<[NoMedia EXCEPT !.readOnly = ro, !.contentSubPath = sub, !.s3VolumeSource = s3,
                       !.gcsVolumeSource = gcs, !.persistentVolumeClaim = pvc,
                       !.hostPath = hp, !.emptyDir = ed]>> :
        ro \in BOOLEAN, sub \in {"", "uploads"},
        s3 \in {<<>>, <<SimpleBackend>>}, gcs \in {<<>>, <<SimpleBackend>>},
        pvc \in {<<>>, <<[storage |-> "1Gi"]>>},
        hp \in {<<>>, <<[path |-> "/host/media"]>>},
        ed \in {<<>>, <<EmptyDirSource("1Gi")>>}}

MediaIntents ==
    {[BaseIntent EXCEPT !.mediaVolumeSpec = m] : m \in BackendMediaSpecs}
    \cup
    {[BaseIntent EXCEPT !.mediaVolumeSpec = m, !.wordpressBootstrapSpec = b,
                        !.volumes = UserVolumesNamed(u), !.volumeMounts = UserMountsNamed(u)] :
        m \in MountMediaSpecs, b \in {<<>>, <<EmptyBootstrap>>},
        u \in SeqsUpTo(UserVolumeNames \ {codeVolumeName}, MaxVolumes)}

(* Init steps: which steps are generated, around the caller's own.         *)
UserContainers == {[ZeroContainer EXCEPT !.name = n, !.image = "busybox"] : n \in {"git", "user-step"}}

StepIntents ==
    {[BaseIntent EXCEPT !.codeVolumeSpec = c, !.mediaVolumeSpec = m,
                        !.initContainers = ic, !.wordpressBootstrapSpec = b] :
        c \in {x \in CodeVolumeSpecs :
                   x = <<>> \/ (~x[1].readOnly /\ x[1].contentSubPath = ""
                                 /\ x[1].hostPath = <<>> /\ x[1].emptyDir = <<>>)},
        m \in {<<>>, <<[NoMedia EXCEPT !.s3VolumeSource = <<SimpleBackend>>]>>,
                <<[NoMedia EXCEPT !.s3VolumeSource = <<SimpleBackend>>,
                                  !.emptyDir = <<EmptyDirSource("")>>]>>},
        ic \in SeqsUpTo(UserContainers, MaxList),
        b \in {<<>>, <<EmptyBootstrap>>}}

(* Environment: routes, the caller's env and env-from lists.               *)
Routes ==
    {[domain |-> d, path |-> pth] :
        d \in {<<"a.io">>, <<"b.io">>}, pth \in {<<>>, <<"/">>, <<"/", "x">>}}

UserEnv == {EnvVar("WP_HOME", "http://override"), [name |-> "DB_PASSWORD", value |-> "",
                                                   valueFrom |-> <<"secret/db/password">>]}

UserEnvFrom == {SecretRef("user-secret"), [secretRef |-> "", configMapRef |-> "user-config"]}

RouteIntents == {[BaseIntent EXCEPT !.routes = r] : r \in SeqsUpTo(Routes, MaxRoutes)}

EnvIntents ==
    {[BaseIntent EXCEPT !.env = e, !.mediaVolumeSpec = m, !.wordpressBootstrapSpec = b] :
        e \in SeqsUpTo(UserEnv, MaxList),
        m \in {<<>>, <<[NoMedia EXCEPT !.s3VolumeSource = <<SimpleBackend>>]>>,
                <<[NoMedia EXCEPT !.gcsVolumeSource =
                       <<[SimpleBackend EXCEPT !.env = <<Cred("GOOGLE_CREDENTIALS")>>]>>]>>},
        b \in {<<>>, <<[EmptyBootstrap EXCEPT !.env = <<EnvVar("WORDPRESS_BOOTSTRAP_USER", "admin")>>]>>}}

EnvFromIntents ==
    {[BaseIntent EXCEPT !.envFrom = ef, !.codeVolumeSpec = c, !.wordpressBootstrapSpec = b] :
        ef \in SeqsUpTo(UserEnvFrom, MaxList),
        c \in {<<>>} \cup
               {<<[readOnly |-> FALSE, mountPath |-> "/app/web/wp-content", contentSubPath |-> "",
                   configSubPath |-> "config", gitDir |-> <<[PlainGit EXCEPT !.envFrom = gef]>>,
                   persistentVolumeClaim |-> <<>>, hostPath |-> <<>>, emptyDir |-> <<>>]>> :
                   gef \in {<<>>, <<SecretRef("git-credentials")>>}},
        b \in {<<>>, <<EmptyBootstrap>>,
                <<[EmptyBootstrap EXCEPT !.envFrom = <<SecretRef("bootstrap-secret")>>]>>}}

(* Pod-level fields, probes, resources and sidecars.                       *)
UserProbe == [DefaultProbe("/healthz", <<>>) EXCEPT !.failureThreshold = 5]

PodIntents ==
    {[BaseIntent EXCEPT !.nodeSelector = ns, !.tolerations = t, !.affinity = a,
                        !.priorityClassName = pc, !.serviceAccountName = sa,
                        !.imagePullSecrets = ips, !.podMetadata = pm] :
        ns \in {<<>>, [k \in {"disk"} |-> "ssd"]},
        t \in {<<>>, <<[key |-> "dedicated", effect |-> "NoSchedule"]>>},
        a \in {<<>>, <<[nodeAffinity |-> "zone-a"]>>},
        pc \in {"", "high"}, sa \in {"", "wordpress-sa"},
        ips \in {<<>>, <<[name |-> "registry"]>>},
        pm \in {<<>>, <<[labels |-> [k \in {"component", "team"} |-> "blog"],
                         annotations |-> [k \in {"note"} |-> "x"]]>>}}

ContainerIntents ==
    {[BaseIntent EXCEPT !.readinessProbe = rp, !.livenessProbe = lp, !.resources = res,
                        !.imagePullPolicy = ipp, !.sidecars = sc] :
        rp \in {<<>>, <<UserProbe>>}, lp \in {<<>>, <<UserProbe>>},
        res \in {"", "cpu=1"}, ipp \in {"", "Always"},
        sc \in SeqsUpTo({[ZeroContainer EXCEPT !.name = n, !.image = "sidecar"] :
                             n \in {"proxy", "exporter"}}, MaxList)}

Intents ==
    CodeIntents \cup MediaIntents \cup StepIntents \cup RouteIntents \cup EnvIntents
    \cup EnvFromIntents \cup PodIntents \cup ContainerIntents

Commands == {<<>>, <<"wp", "cron", "event", "run">>}

----------------------------------------------------------------------------
(* The state machine: a resource is chosen, then compiled repeatedly.      *)

Init ==
    /\ wp \in Intents
    /\ web = <<>>
    /\ job = <<>>
    /\ cmd = <<>>
    /\ calls = 0

(* WebPodTemplateSpec appending the media variables to the resource's own *)
(* Env instead of to a fresh list.                                         *)
WebPodTemplateSpecGrowingEnv ==
    /\ calls < MaxCalls
    /\ wp' = [wp EXCEPT !.env = wp.env \o mediaEnv(wp)]
    /\ web' = <<WebTemplate(wp')>>
    /\ calls' = calls + 1
    /\ UNCHANGED <<job, cmd>>

WebPodTemplateSpec ==
    /\ calls < MaxCalls
    /\ web' = <<WebTemplate(wp)>>
    /\ calls' = calls + 1
    /\ UNCHANGED <<wp, job, cmd>>

JobPodTemplateSpec ==
    /\ calls < MaxCalls
    /\ \E c \in Commands :
          /\ cmd' = c
          /\ job' = <<JobTemplate(wp, c)>>
    /\ calls' = calls + 1
    /\ UNCHANGED <<wp, web>>

Next == WebPodTemplateSpec \/ JobPodTemplateSpec

Spec == Init /\ [][Next]_vars

----------------------------------------------------------------------------
(* Vocabulary of the properties.                                           *)

(* The pod templates compiled so far.                                      *)
Outputs == {web[i] : i \in DOMAIN web} \cup {job[i] : i \in DOMAIN job}

(* How many elements of the list s carry the name n.                       *)
CountNamed(s, n) == Cardinality({i \in DOMAIN s : s[i].name = n})

Names(s) == [i \in DOMAIN s |-> s[i].name]

CodeSpecSet == wp.codeVolumeSpec # <<>>

GitSet == CodeSpecSet /\ wp.codeVolumeSpec[1].gitDir # <<>>

CodeClaimSet == CodeSpecSet /\ wp.codeVolumeSpec[1].persistentVolumeClaim # <<>>

CodeHostPathSet == CodeSpecSet /\ wp.codeVolumeSpec[1].hostPath # <<>>

CodeEmptyDirSet == CodeSpecSet /\ wp.codeVolumeSpec[1].emptyDir # <<>>

AnyCodeVariant == GitSet \/ CodeClaimSet \/ CodeHostPathSet \/ CodeEmptyDirSet

MediaSpecSet == wp.mediaVolumeSpec # <<>>

S3Set == MediaSpecSet /\ wp.mediaVolumeSpec[1].s3VolumeSource # <<>>

GCSSet == MediaSpecSet /\ wp.mediaVolumeSpec[1].gcsVolumeSource # <<>>

AnyMediaMountSource ==
    /\ MediaSpecSet
    /\ \/ wp.mediaVolumeSpec[1].persistentVolumeClaim # <<>>
       \/ wp.mediaVolumeSpec[1].hostPath # <<>>
       \/ wp.mediaVolumeSpec[1].emptyDir # <<>>

BootstrapSet == wp.wordpressBootstrapSpec # <<>>

(* Number of generated steps of each kind, and where they sit.             *)
NPrep == IF AnyCodeVariant \/ AnyMediaMountSource THEN 1 ELSE 0

NUser == Len(wp.initContainers)

NGit == IF GitSet THEN 1 ELSE 0

NInstall == IF BootstrapSet THEN 1 ELSE 0

GitPos == NPrep + NUser + 1

InstallPos == NPrep + NUser + NGit + 1

----------------------------------------------------------------------------
(* C1: the init steps of every compiled template are, in this order, the   *)
(* volume-preparation step (iff code or media mounts are present), the     *)
(* caller's init steps verbatim, the code-fetch step (iff the git variant  *)
(* is set) and the install step (iff a bootstrap spec is present); so the  *)
(* code-fetch step comes after volume preparation and before install.      *)
InitStepOrder ==
    \A out \in Outputs :
        LET steps == out.initContainers
        IN  /\ Len(steps) = NPrep + NUser + NGit + NInstall
            /\ NPrep = 1 => steps[1].name = "prepare-volumes"
                             /\ steps[1].image = prepareVolumesImage
            /\ SubSeq(steps, NPrep + 1, NPrep + NUser) = wp.initContainers
            /\ NGit = 1 => /\ steps[GitPos].name = "git"
                           /\ steps[GitPos].image = GitCloneImage
                           /\ NPrep = 1
                           /\ 1 < GitPos
                           /\ NInstall = 1 => GitPos < InstallPos
            /\ NInstall = 1 => /\ steps[InstallPos].name = "install-wp"
                               /\ steps[InstallPos].command = <<"wp-install">>
                               /\ InstallPos = Len(steps)

(* All four kinds of step are present, in both shapes.                     *)
InitStepOrderWitness ==
    /\ web # <<>> /\ job # <<>>
    /\ NUser > 0
    /\ Names(web[1].initContainers)
           = <<"prepare-volumes">> \o Names(wp.initContainers) \o <<"git", "install-wp">>
    /\ Names(job[1].initContainers) = Names(web[1].initContainers)

(* The example of the specification: git code, S3 media, bootstrap.        *)
InitStepExampleWitness ==
    /\ web # <<>>
    /\ Names(web[1].initContainers) = <<"prepare-volumes", "git", "install-wp">>
    /\ \E i \in DOMAIN web[1].containers[1].env :
          web[1].containers[1].env[i] = EnvVar("STACK_MEDIA_BUCKET", "s3://b/p")

----------------------------------------------------------------------------
(* Generated volumes and mounts.  The caller's volumes and mounts are      *)
(* copied verbatim and may carry any name, so the generated ones are what  *)
(* an output holds beyond the caller's.                                    *)

GeneratedVolumes(out, n) == CountNamed(out.volumes, n) - CountNamed(wp.volumes, n)

GeneratedMounts(container, n) ==
    CountNamed(container.volumeMounts, n) - CountNamed(wp.volumeMounts, n)

(* The environment variable STACK_MEDIA_BUCKET with the given value is in  *)
(* the list.                                                               *)
HasBucketEnv(envs, value) ==
    \E i \in DOMAIN envs : envs[i] = EnvVar("STACK_MEDIA_BUCKET", value)

BucketURL(prefix, src) == prefix \o "://" \o Str(PathJoin(src.bucket, src.pathPrefix))

BucketEnvPresent(out) ==
    /\ S3Set => HasBucketEnv(out.containers[1].env,
                              BucketURL("s3", wp.mediaVolumeSpec[1].s3VolumeSource[1]))
    /\ GCSSet => HasBucketEnv(out.containers[1].env,
                               BucketURL("gs", wp.mediaVolumeSpec[1].gcsVolumeSource[1]))

BackendOnly == (S3Set \/ GCSSet) /\ ~AnyMediaMountSource

NoCodeSourceNoCode ==
    ~AnyCodeVariant =>
        \A out \in Outputs :
            /\ GeneratedVolumes(out, codeVolumeName) = 0
            /\ GeneratedMounts(out.containers[1], codeVolumeName) = 0
            /\ NInstall = 1 =>
                  GeneratedMounts(out.initContainers[InstallPos], codeVolumeName) = 0
            /\ NPrep = 1 => CountNamed(out.initContainers[1].volumeMounts, codeVolumeName) = 0
            /\ CountNamed(out.initContainers, "git") = CountNamed(wp.initContainers, "git")
            /\ \A i \in DOMAIN out.initContainers :
                  out.initContainers[i].image # GitCloneImage

(* A code spec with no variant populated, compiled with a volume           *)
(* preparation step (media is mounted) and an install step.                *)
NoCodeSourceWitness ==
    /\ CodeSpecSet /\ ~AnyCodeVariant
    /\ job # <<>>
    /\ Len(job[1].initContainers) >= 2
    /\ job[1].initContainers[1].name = "prepare-volumes"
    /\ job[1].initContainers[Len(job[1].initContainers)].name = "install-wp"

(* The backing the priority git > claim > hostPath > ephemeral selects.    *)
CodeBackingByPriority(v) ==
    LET c == wp.codeVolumeSpec[1]
    IN  /\ v.name = codeVolumeName
        /\ GitSet =>
              /\ v.emptyDir = (IF c.gitDir[1].emptyDir # <<>> THEN c.gitDir[1].emptyDir
                                ELSE <<EmptyDirSource("")>>)
              /\ v.persistentVolumeClaim = <<>> /\ v.hostPath = <<>>
        /\ (~GitSet /\ CodeClaimSet) =>
              /\ v.persistentVolumeClaim = <<[claimName |-> ComponentName(wp, WordpressCodePVC)]>>
              /\ v.emptyDir = <<>> /\ v.hostPath = <<>>
        /\ (~GitSet /\ ~CodeClaimSet /\ CodeHostPathSet) =>
              /\ v.hostPath = c.hostPath
              /\ v.emptyDir = <<>> /\ v.persistentVolumeClaim = <<>>
        /\ (~GitSet /\ ~CodeClaimSet /\ ~CodeHostPathSet) =>
              /\ v.emptyDir = c.emptyDir
              /\ v.persistentVolumeClaim = <<>> /\ v.hostPath = <<>>

(* C4: when code mounts are present, exactly one code volume is added,     *)
(* right after the caller's volumes, and its backing is that of the first  *)
(* populated variant in the order git, claim, hostPath, ephemeral,         *)
(* whatever lower-priority variants are populated as well.                 *)
OneCodeVolumeByPriority ==
    AnyCodeVariant =>
        \A out \in Outputs :
            /\ GeneratedVolumes(out, codeVolumeName) = 1
            /\ Len(out.volumes) >= 3 + Len(wp.volumes)
            /\ CodeBackingByPriority(out.volumes[3 + Len(wp.volumes)])

(* Several variants populated at once: claim, hostPath and ephemeral, no   *)
(* git; the claim wins.                                                    *)
OneCodeVolumeWitness ==
    /\ ~GitSet /\ CodeClaimSet /\ CodeHostPathSet /\ CodeEmptyDirSet
    /\ web # <<>>
    /\ \E i \in DOMAIN web[1].volumes :
          /\ web[1].volumes[i].name = codeVolumeName
          /\ web[1].volumes[i].persistentVolumeClaim # <<>>

----------------------------------------------------------------------------
(* The main process environment.                                           *)

BuiltInNames ==
    <<"WP_HOME", "WP_SITEURL", "WP_CORE_DIRECTORY", "STACK_ROUTES", "STACK_SITE_NAME",
      "STACK_SITE_NAMESPACE">>

MainEnv(out) == out.containers[1].env

(* What follows the built-in variables and the caller's entries.           *)
MediaPart(out) == SubSeq(MainEnv(out), 7 + Len(wp.env), Len(MainEnv(out)))

(* Number of media-derived variables: per descriptor set, the bucket URL   *)
(* and the credential entries whose name is in that backend's table.       *)
NMediaEnv ==
    (IF S3Set
     THEN 1 + Cardinality({i \in DOMAIN wp.mediaVolumeSpec[1].s3VolumeSource[1].env :
                 wp.mediaVolumeSpec[1].s3VolumeSource[1].env[i].name \in
                     {"AWS_ACCESS_KEY_ID", "AWS_SECRET_ACCESS_KEY", "AWS_CONFIG_FILE", "ENDPOINT"}})
     ELSE 0)
    +
    (IF GCSSet
     THEN 1 + Cardinality({i \in DOMAIN wp.mediaVolumeSpec[1].gcsVolumeSource[1].env :
                 wp.mediaVolumeSpec[1].gcsVolumeSource[1].env[i].name \in
                     {"GOOGLE_CREDENTIALS", "GOOGLE_APPLICATION_CREDENTIALS"}})
     ELSE 0)

(* C5: the main environment is the six built-in variables in their fixed   *)
(* order, then the caller's entries in input order, then the media-derived *)
(* variables; nothing is removed or merged on a name clash, so its length  *)
(* is 6 + caller entries + media-derived entries.                          *)
EnvBuiltInsThenUserThenMedia ==
    \A out \in Outputs :
        /\ Len(MainEnv(out)) = 6 + Len(wp.env) + NMediaEnv
        /\ Names(SubSeq(MainEnv(out), 1, 6)) = BuiltInNames
        /\ MainEnv(out)[1].value = HomeURL(wp)
        /\ MainEnv(out)[2].value = SiteURL(wp)
        /\ MainEnv(out)[3].value = wp.wordpressPathPrefix
        /\ MainEnv(out)[5].value = wp.name
        /\ MainEnv(out)[6].value = wp.namespace
        /\ SubSeq(MainEnv(out), 7, 6 + Len(wp.env)) = wp.env
        /\ \A i \in DOMAIN MediaPart(out) :
              MediaPart(out)[i].name \in
                  {"STACK_MEDIA_BUCKET", "AWS_ACCESS_KEY_ID", "AWS_SECRET_ACCESS_KEY",
                   "AWS_CONFIG_FILE", "S3_ENDPOINT", "GOOGLE_CREDENTIALS",
                   "GOOGLE_APPLICATION_CREDENTIALS"}

(* The caller overrides the built-in WP_HOME, and a backend is set: both   *)
(* WP_HOME entries are in the output.                                      *)
EnvWitness ==
    /\ web # <<>>
    /\ \E i \in DOMAIN wp.env : wp.env[i].name = "WP_HOME"
    /\ CountNamed(MainEnv(web[1]), "WP_HOME") >= 2
    /\ NMediaEnv >= 2
    /\ Len(MainEnv(web[1])) >= 10

RoutesEnv(out) == MainEnv(out)[4]

(* C6: STACK_ROUTES is the canonical main domain when no route is given;   *)
(* with N >= 1 routes it is the comma-separated list of the N entries      *)
(* path.Join(domain, path), in input order.                                *)
StackRoutesValue ==
    \A out \in Outputs :
        /\ RoutesEnv(out).name = "STACK_ROUTES"
        /\ RoutesEnv(out).valueFrom = <<>>
        /\ Len(wp.routes) = 0 => RoutesEnv(out).value = Str(MainDomain(wp))
        /\ Len(wp.routes) >= 1 =>
              RoutesEnv(out).value =
                  Str(JoinWith([i \in 1..Len(wp.routes) |->
                                   PathJoin(wp.routes[i].domain, wp.routes[i].path)], ","))

(* Two routes, compiled in input order.                                    *)
StackRoutesWitness ==
    /\ Len(wp.routes) = 2
    /\ wp.routes[1].domain # wp.routes[2].domain
    /\ job # <<>>
    /\ RoutesEnv(job[1]).value = "b.io/x,a.io"

(* No route: the main domain alone.                                        *)
StackRoutesDefaultWitness ==
    /\ Len(wp.routes) = 0
    /\ web # <<>>
    /\ RoutesEnv(web[1]).value = "site.main-domain"

----------------------------------------------------------------------------
JobEqualsWebIncludingProbes ==
    (web # <<>> /\ job # <<>>) =>
        LET w == web[1]
            j == job[1]
            wc == w.containers[1]
            jc == j.containers[1]
        IN  /\ j.initContainers = w.initContainers
            /\ j.volumes = w.volumes
            /\ jc.image = wc.image
            /\ jc.env = wc.env
            /\ jc.envFrom = wc.envFrom
            /\ jc.volumeMounts = wc.volumeMounts
            /\ jc.securityContext = wc.securityContext
            /\ Tail(j.containers) = Tail(w.containers)
            /\ j.nodeSelector = w.nodeSelector
            /\ j.tolerations = w.tolerations
            /\ j.affinity = w.affinity
            /\ j.priorityClassName = w.priorityClassName
            /\ jc.readinessProbe = wc.readinessProbe
            /\ jc.livenessProbe = wc.livenessProbe
            /\ jc.resources = wc.resources
            /\ j.restartPolicy = "Never"
            /\ jc.name # wc.name
            /\ jc.args = cmd
            /\ jc.ports = <<>>
            /\ jc.lifecycle = <<>>
            /\ j.securityContext = <<[fsGroup |-> 33]>>

(* C8, amended: the job template equals the serving template in init       *)
(* steps, volumes, image and pull policy, env, env-from, mounts, container *)
(* security context, sidecars after the main container, placement fields,  *)
(* service account, pull secrets and annotations.  It differs in that the  *)
(* restart policy is Never, the main container is named wp-cli and takes   *)
(* the caller's arguments, has no ports, no lifecycle hooks, no readiness  *)
(* or liveness probe and no resource requirements, the pod security        *)
(* context sets fsGroup 33, and the labels are merged from the job's own   *)
(* label set.                                                              *)
JobEqualsWebExceptProbesAndResources ==
    (web # <<>> /\ job # <<>>) =>
        LET w == web[1]
            j == job[1]
            wc == w.containers[1]
            jc == j.containers[1]
            callerLabels == IF wp.podMetadata # <<>> THEN wp.podMetadata[1].labels ELSE <<>>
        IN  /\ j.initContainers = w.initContainers
            /\ j.volumes = w.volumes
            /\ jc.image = wc.image /\ jc.image = wp.image
            /\ jc.imagePullPolicy = wc.imagePullPolicy
            /\ jc.env = wc.env
            /\ jc.envFrom = wc.envFrom
            /\ jc.volumeMounts = wc.volumeMounts
            /\ jc.securityContext = wc.securityContext
            /\ jc.command = wc.command
            /\ Tail(j.containers) = wp.sidecars /\ Tail(w.containers) = wp.sidecars
            /\ j.nodeSelector = w.nodeSelector
            /\ j.tolerations = w.tolerations
            /\ j.affinity = w.affinity
            /\ j.priorityClassName = w.priorityClassName
            /\ j.serviceAccountName = w.serviceAccountName
            /\ j.imagePullSecrets = w.imagePullSecrets
            /\ j.annotations = w.annotations
            /\ j.restartPolicy = "Never" /\ w.restartPolicy = ""
            /\ jc.name = "wp-cli" /\ wc.name = "wordpress"
            /\ jc.args = cmd /\ wc.args = <<>>
            /\ jc.ports = <<>> /\ Len(wc.ports) = 2
            /\ jc.lifecycle = <<>> /\ wc.lifecycle # <<>>
            /\ jc.readinessProbe = <<>> /\ wc.readinessProbe # <<>>
            /\ jc.livenessProbe = <<>> /\ wc.livenessProbe # <<>>
            /\ jc.resources = "" /\ wc.resources = wp.resources
            /\ j.securityContext = <<[fsGroup |-> 33]>> /\ w.securityContext = <<>>
            /\ j.labels = LabelsMerge(callerLabels, JobPodLabels(wp))
            /\ w.labels = LabelsMerge(callerLabels, WebPodLabels(wp))

(* Both shapes compiled from a resource with probes, resources and         *)
(* sidecars of its own, the job with a command.                            *)
JobEqualsWebWitness ==
    /\ web # <<>> /\ job # <<>>
    /\ cmd # <<>>
    /\ wp.readinessProbe # <<>> /\ wp.resources # "" /\ wp.sidecars # <<>>
    /\ job[1].containers[1].readinessProbe = <<>>
    /\ web[1].containers[1].readinessProbe = wp.readinessProbe

----------------------------------------------------------------------------
(* Bulk env-from references.                                               *)

GeneratedSecretRef == [secretRef |-> ComponentName(wp, WordpressSecret), configMapRef |-> ""]

GeneralEnvFrom == <<GeneratedSecretRef>> \o wp.envFrom

(* C9, as stated: the main container, the code-fetch step and the install  *)
(* step each get the generated secret, then the caller's references, then  *)
(* (code-fetch) the code source's own or (install) the bootstrap spec's    *)
(* own references.                                                         *)
EnvFromEverywhere ==
    \A out \in Outputs :
        /\ out.containers[1].envFrom = GeneralEnvFrom
        /\ NGit = 1 =>
              out.initContainers[GitPos].envFrom
                  = GeneralEnvFrom \o wp.codeVolumeSpec[1].gitDir[1].envFrom
        /\ NInstall = 1 =>
              out.initContainers[InstallPos].envFrom
                  = GeneralEnvFrom \o wp.wordpressBootstrapSpec[1].envFrom

(* C9, amended: the main container gets the generated secret then the      *)
(* caller's references; the install step gets the same followed by the     *)
(* bootstrap spec's own references; the code-fetch step gets the code      *)
(* source's own references and nothing else.                               *)
EnvFromMainAndInstall ==
    \A out \in Outputs :
        /\ out.containers[1].envFrom = GeneralEnvFrom
        /\ NGit = 1 =>
              out.initContainers[GitPos].envFrom = wp.codeVolumeSpec[1].gitDir[1].envFrom
        /\ NInstall = 1 =>
              out.initContainers[InstallPos].envFrom
                  = GeneralEnvFrom \o wp.wordpressBootstrapSpec[1].envFrom

(* Caller, code source and bootstrap spec each bring references.           *)
EnvFromWitness ==
    /\ web # <<>>
    /\ Len(wp.envFrom) = 2
    /\ NGit = 1 /\ wp.codeVolumeSpec[1].gitDir[1].envFrom # <<>>
    /\ NInstall = 1 /\ wp.wordpressBootstrapSpec[1].envFrom # <<>>
    /\ Len(web[1].initContainers[GitPos].envFrom) = 1
    /\ Len(web[1].initContainers[InstallPos].envFrom) = 4

----------------------------------------------------------------------------
(* Media-derived variables.                                                *)

S3Names ==
    {<<"AWS_ACCESS_KEY_ID", "AWS_ACCESS_KEY_ID">>,
     <<"AWS_SECRET_ACCESS_KEY", "AWS_SECRET_ACCESS_KEY">>,
     <<"AWS_CONFIG_FILE", "AWS_CONFIG_FILE">>,
     <<"ENDPOINT", "S3_ENDPOINT">>}

GCSNames ==
    {<<"GOOGLE_CREDENTIALS", "GOOGLE_CREDENTIALS">>,
     <<"GOOGLE_APPLICATION_CREDENTIALS", "GOOGLE_APPLICATION_CREDENTIALS">>}

(* The variables one descriptor contributes: the bucket URL, then the      *)
(* credential entries with a canonical name of the table, renamed, value   *)
(* and value-from kept.                                                    *)
BackendBlock(prefix, src, table) ==
    LET known(e) == \E t \in table : t[1] = e.name
        kept == SelectSeq(src.env, known)
    IN  <<[name |-> "STACK_MEDIA_BUCKET", value |-> BucketURL(prefix, src), valueFrom |-> <<>>]>>
        \o [i \in DOMAIN kept |->
               [name |-> (CHOOSE t \in table : t[1] = kept[i].name)[2],
                value |-> kept[i].value,
                valueFrom |-> kept[i].valueFrom]]

S3Block == BackendBlock("s3", wp.mediaVolumeSpec[1].s3VolumeSource[1], S3Names)

GCSBlock == BackendBlock("gs", wp.mediaVolumeSpec[1].gcsVolumeSource[1], GCSNames)

(* C10, as stated: the media-derived variables are empty without a backend *)
(* descriptor, and otherwise are one bucket-URL variable followed by the   *)
(* backend's renamed credential entries.                                   *)
MediaEnvIsOneBlock ==
    \A out \in Outputs :
        /\ ~(S3Set \/ GCSSet) => MediaPart(out) = <<>>
        /\ (S3Set \/ GCSSet) =>
              \/ S3Set /\ MediaPart(out) = S3Block
              \/ GCSSet /\ MediaPart(out) = GCSBlock

(* C10, amended: the media-derived variables are empty without a backend   *)
(* descriptor, and otherwise are, for each descriptor set (S3 first, then  *)
(* GCS), one bucket-URL variable followed by that backend's credential     *)
(* entries in input order, renamed by the backend's table, entries with    *)
(* a name outside the table being dropped.                                 *)
MediaEnvIsBlockPerBackend ==
    \A out \in Outputs :
        MediaPart(out) = (IF S3Set THEN S3Block ELSE <<>>) \o (IF GCSSet THEN GCSBlock ELSE <<>>)

(* An S3 descriptor whose entries are one renamed and one dropped.         *)
MediaEnvWitness ==
    /\ S3Set /\ ~GCSSet
    /\ Names(wp.mediaVolumeSpec[1].s3VolumeSource[1].env) = <<"GOOGLE_CREDENTIALS", "ENDPOINT">>
    /\ web # <<>>
    /\ Names(MediaPart(web[1])) = <<"STACK_MEDIA_BUCKET", "S3_ENDPOINT">>

(* Both descriptors set: two blocks.                                       *)
MediaEnvBothWitness ==
    /\ S3Set /\ GCSSet
    /\ job # <<>>
    /\ CountNamed(MediaPart(job[1]), "STACK_MEDIA_BUCKET") = 2

----------------------------------------------------------------------------
(* Generated mounts against generated volumes.                             *)

(* The volumes of a template that the compilation itself adds: the two     *)
(* before the caller's volumes and those after them.                       *)
OwnVolumes(out) ==
    SubSeq(out.volumes, 1, 2) \o SubSeq(out.volumes, 3 + Len(wp.volumes), Len(out.volumes))

(* The mounts the compilation adds to the main container and the install   *)
(* step: the one before the caller's mounts and those after them.          *)
OwnMounts(container) ==
    SubSeq(container.volumeMounts, 1, 1)
    \o SubSeq(container.volumeMounts, 2 + Len(wp.volumeMounts), Len(container.volumeMounts))

GeneratedVolumeNames ==
    {knativeInternalVolume, knativeVarLogVolume, codeVolumeName, mediaVolumeName}

MountsResolve(mounts, out) ==
    \A i \in DOMAIN mounts :
        /\ mounts[i].name \in GeneratedVolumeNames
        /\ CountNamed(OwnVolumes(out), mounts[i].name) = 1

(* C11: in both shapes, every generated mount (log, code and media mounts  *)
(* of the main container and the install step, all mounts of the volume    *)
(* preparation step, the code mount of the code-fetch step) names a        *)
(* generated volume of the same template, and each of the names scratch,   *)
(* log, code, media is carried by at most one generated volume.            *)
GeneratedMountsHaveVolumes ==
    \A out \in Outputs :
        /\ MountsResolve(OwnMounts(out.containers[1]), out)
        /\ NPrep = 1 => MountsResolve(out.initContainers[1].volumeMounts, out)
        /\ NGit = 1 => MountsResolve(out.initContainers[GitPos].volumeMounts, out)
        /\ NInstall = 1 => MountsResolve(OwnMounts(out.initContainers[InstallPos]), out)
        /\ \A n \in GeneratedVolumeNames : CountNamed(OwnVolumes(out), n) <= 1
        /\ \A i \in DOMAIN OwnVolumes(out) : OwnVolumes(out)[i].name \in GeneratedVolumeNames

(* Git code and mounted media, both writable, with a bootstrap spec: the   *)
(* preparation step mounts all four volumes, the fetch step the code.      *)
GeneratedMountsWitness ==
    /\ job # <<>>
    /\ NPrep = 1 /\ NGit = 1 /\ NInstall = 1
    /\ Names(job[1].initContainers[1].volumeMounts)
           = <<knativeInternalVolume, knativeVarLogVolume, codeVolumeName, mediaVolumeName>>
    /\ Names(job[1].initContainers[GitPos].volumeMounts) = <<codeVolumeName>>
    /\ Names(OwnVolumes(job[1]))
           = <<knativeInternalVolume, knativeVarLogVolume, codeVolumeName, mediaVolumeName>>
    /\ Len(OwnMounts(job[1].containers[1])) = 5

====
